---- MODULE Spec2Model ----
(***************************************************************************)
(* Notion -> Jekyll sync script (scripts/sync-notion.js).                  *)
(*                                                                         *)
(* Spec     : one reconciliation pass of main(), step by step: environment *)
(*            validation, index scan of _posts/, the paginated database    *)
(*            query, the per-page loop (metadata, blocks, rename delete,   *)
(*            compare-and-write) and the stale cleanup.                    *)
(* SpecRerun: the same, followed by further passes against the same        *)
(*            published set.                                               *)
(* SpecDoc  : each paginated fetcher on its own, and fetchAllBlocks        *)
(*            followed by blocksToMarkdown on concrete block lists.        *)
(* SpecText : the text functions on concrete strings: titleToSlug,         *)
(*            extractMeta, buildFrontMatter and the index scan's pattern,  *)
(*            richTextToMarkdown, and the image and video blocks.          *)
(***************************************************************************)
EXTENDS Integers, Sequences, FiniteSets, TLC

\* ---------------------------------------------------------------- bounds
NumTokens      == 2   \* distinct Notion page ids
MaxPages       == 2   \* published pages in the database
MaxRuns        == 2   \* passes in SpecRerun
MaxBlocks      == 3   \* child blocks of a page in SpecDoc

Tokens == 1..NumTokens

\* The publish dates and slugs pages resolve to.  Both enter the file name the
\* same way, so the model varies the slug.
Dates == {"2021-03-16"}
Slugs == {"a", "b"}

\* Title, tags, excerpt and body of a post, as one value: what the database
\* holds now, and what an earlier pass may have written.
CurrentRev == "new"
Revs       == {"old", CurrentRev}

NoId     == 0          \* no notion_id matched / Map.get() === undefined
NoCursor == 0          \* start_cursor: undefined
Running  == 0 - 1      \* the process has not exited yet

\* ------------------------------------------------------------ file names
\* `${date}-${slug}.md`
postFilename(date, slug) == <<date, "-", slug, ".md">>

Files == {postFilename(d, s) : d \in Dates, s \in Slugs}
NoFile == <<>>

\* ---------------------------------------------------------- file content
\* A file of _posts/ is absent, unreadable (readFileSync throws), text without
\* a notion_id line, or a post: front matter (date, slug, notion_id; title,
\* tags, excerpt ... and the body are the revision) followed by the body.
Absent     == [kind |-> "absent",     id |-> NoId, date |-> "", slug |-> "", rev |-> ""]
Unreadable == [kind |-> "unreadable", id |-> NoId, date |-> "", slug |-> "", rev |-> ""]
Foreign    == [kind |-> "foreign",    id |-> NoId, date |-> "", slug |-> "", rev |-> ""]

\* const content = `${fm}\n\n${body}\n` with fm = buildFrontMatter(meta, page.id)
Compose(page) ==
  [kind |-> "post", id |-> page.id, date |-> page.date, slug |-> page.slug,
   rev |-> page.rev]

\* content.match(/^notion_id:\s*"?([a-f0-9-]{36})"?/m)
\* Mutant: a file without a notion_id line is taken for a file of token 1.
MatchNotionIdMut(content) ==
  IF content.kind = "post" THEN content.id
  ELSE IF content.kind = "foreign" THEN 1 ELSE NoId

MatchNotionId(content) == IF content.kind = "post" THEN content.id ELSE NoId

PageRecs == [id : Tokens, date : Dates, slug : Slugs, rev : {CurrentRev}]

TargetOf(page) == postFilename(page.date, page.slug)

\* ------------------------------------------------------- remote database
\* Page ids are unique in the database.
Listings ==
  {L \in UNION {[1..n -> PageRecs] : n \in 0..MaxPages} :
     \A a, b \in 1..Len(L) : a # b => L[a].id # L[b].id}

\* What a listing request with start_cursor c can return: the API decides how
\* many of the remaining items a cursor page holds (at least one while items
\* remain) and, when more remain, hands out the cursor to continue from.  A
\* cursor stands for the number of items served before it.
Responses(list, c) ==
  {[results     |-> SubSeq(list, c + 1, c + n),
    has_more    |-> c + n < Len(list),
    next_cursor |-> IF c + n < Len(list) THEN c + n ELSE NoCursor] :
     n \in IF c = Len(list) THEN {0} ELSE 1..(Len(list) - c)}

\* ------------------------------------------------------------ block lists
\* Strings are sequences of characters; rich text is its formatted result.
NL   == "\n"
LS   == "LS"              \* U+2028 LINE SEPARATOR (one character)
BT   == "BT"              \* the backquote (one character)
Null == <<"null">>        \* blockToMarkdown's null (no string has this element)

\* The blocks a page's children are drawn from (type, payload present,
\* formatted rich text, checked flag).
Blk(ty, data, text, checked) ==
  [type |-> ty, data |-> data, text |-> text, checked |-> checked]

BlockSet ==
  { Blk("paragraph",          TRUE,  <<"t">>, FALSE),
    Blk("paragraph",          TRUE,  <<>>,    FALSE),
    Blk("bulleted_list_item", TRUE,  <<"t">>, FALSE),
    Blk("bulleted_list_item", TRUE,  <<>>,    FALSE),
    Blk("bulleted_list_item", FALSE, <<>>,    FALSE),
    Blk("numbered_list_item", TRUE,  <<"t">>, FALSE),
    Blk("to_do",              TRUE,  <<"t">>, TRUE),
    Blk("table_of_contents",  TRUE,  <<>>,    FALSE),
    Blk("child_page",         TRUE,  <<>>,    FALSE),
    Blk("unsupported",        TRUE,  <<>>,    FALSE) }

blockToMarkdown(block) ==
  IF ~block.data THEN Null
  ELSE CASE block.type = "paragraph"          -> block.text
         [] block.type = "bulleted_list_item" -> <<"-", " ">> \o block.text
         [] block.type = "numbered_list_item" -> <<"1", ".", " ">> \o block.text
         [] block.type = "to_do" ->
              <<"-", " ", "[", IF block.checked THEN "x" ELSE " ", "]", " ">>
                \o block.text
         [] block.type = "table_of_contents"  -> <<>>
         [] block.type = "child_page"         -> Null
         [] OTHER                             -> Null

LIST_TYPES == {"bulleted_list_item", "numbered_list_item", "to_do"}

\* const prevBlock = i > 0 ? blocks[i - 1] : null
\* const prevIsList = prevBlock ? LIST_TYPES.has(prevBlock.type) : false
PrevIsList(bs, k) == IF k > 1 THEN bs[k - 1].type \in LIST_TYPES ELSE FALSE

\* lines.length > 0 && !(isList && prevIsList)
NeedsBlank(bs, k, lines) ==
  Len(lines) > 0 /\ ~(bs[k].type \in LIST_TYPES /\ PrevIsList(bs, k))

\* A line of `lines`: its text and the block it came from (0: a separator).
Line(md, k) == [md |-> md, blk |-> k]

\* The for loop of blocksToMarkdown from index k on.
RECURSIVE MdLines(_, _, _)
MdLines(bs, k, lines) ==
  IF k > Len(bs) THEN lines
  ELSE LET md == blockToMarkdown(bs[k])
           l1 == IF NeedsBlank(bs, k, lines) THEN Append(lines, Line(<<>>, 0))
                                              ELSE lines
           l2 == IF md # <<>> THEN Append(l1, Line(md, k)) ELSE l1
       IN  IF md = Null THEN MdLines(bs, k + 1, lines)
                        ELSE MdLines(bs, k + 1, l2)

\* lines.join('\n')
RECURSIVE Join(_)
Join(lines) ==
  IF lines = <<>> THEN <<>>
  ELSE IF Len(lines) = 1 THEN lines[1].md
  ELSE lines[1].md \o <<NL>> \o Join(Tail(lines))

\* \s
SpaceChars == {" ", NL, LS}

IsSpace(c) == c \in SpaceChars

\* String.prototype.trim
RECURSIVE TrimStart(_)
TrimStart(str) ==
  IF str # <<>> /\ IsSpace(Head(str)) THEN TrimStart(Tail(str)) ELSE str

RECURSIVE TrimEnd(_)
TrimEnd(str) ==
  IF str # <<>> /\ IsSpace(str[Len(str)])
    THEN TrimEnd(SubSeq(str, 1, Len(str) - 1)) ELSE str

Trim(str) == TrimEnd(TrimStart(str))

blocksToMarkdown(bs) == Trim(Join(MdLines(bs, 1, <<>>)))

BlockLists == UNION {[1..n -> BlockSet] : n \in 0..MaxBlocks}

\* ------------------------------------------------------------------ text
\* A value that may be undefined or null: None, or Some(v).
None    == <<>>
Some(v) == <<v>>
Val(o)  == o[1]

\* a ?? b
Coalesce(a, b) == IF a # None THEN a ELSE b

\* o?.key, for an object whose fields are optional values
Chain(o, key) == IF o = None THEN None ELSE Val(o)[key]

\* items?.[0]?.plain_text, items being the plain_text of each rich-text item
FirstPlainText(items) ==
  IF items = None \/ Val(items) = <<>> THEN None ELSE Some(Val(items)[1])

Uppers == <<"A", "B", "C", "D", "E", "F", "G", "H", "I", "J", "K", "L", "M",
            "N", "O", "P", "Q", "R", "S", "T", "U", "V", "W", "X", "Y", "Z">>
Lowers == <<"a", "b", "c", "d", "e", "f", "g", "h", "i", "j", "k", "l", "m",
            "n", "o", "p", "q", "r", "s", "t", "u", "v", "w", "x", "y", "z">>
Digits == {"0", "1", "2", "3", "4", "5", "6", "7", "8", "9"}

Range(f) == {f[n] : n \in DOMAIN f}

\* \w
WordChars == Range(Uppers) \cup Range(Lowers) \cup Digits \cup {"_"}

\* String.prototype.toLowerCase
toLowerCase(str) ==
  [n \in DOMAIN str |->
     IF str[n] \in Range(Uppers)
       THEN Lowers[CHOOSE k \in DOMAIN Uppers : Uppers[k] = str[n]]
       ELSE str[n]]

\* .replace(/[^X]/g, '') for a character class X
RECURSIVE KeepOnly(_, _)
KeepOnly(str, class) ==
  IF str = <<>> THEN <<>>
  ELSE (IF Head(str) \in class THEN <<Head(str)>> ELSE <<>>)
         \o KeepOnly(Tail(str), class)

\* .replace(/X+/g, '-') for a character class X
RECURSIVE CollapseRuns(_, _)
CollapseRuns(str, class) ==
  IF str = <<>> THEN <<>>
  ELSE IF Head(str) \in class
    THEN IF Len(str) > 1 /\ str[2] \in class
           THEN CollapseRuns(Tail(str), class)
           ELSE <<"-">> \o CollapseRuns(Tail(str), class)
    ELSE <<Head(str)>> \o CollapseRuns(Tail(str), class)

\* Mutant: leading and trailing hyphens stay.
StripHyphensMut(str) == str

\* .replace(/^-|-$/g, '')
StripHyphens(str) ==
  LET a == IF str # <<>> /\ Head(str) = "-" THEN Tail(str) ELSE str
  IN  IF a # <<>> /\ a[Len(a)] = "-" THEN SubSeq(a, 1, Len(a) - 1) ELSE a

titleToSlug(title) ==
  StripHyphens(
    CollapseRuns(
      CollapseRuns(
        Trim(KeepOnly(toLowerCase(title), WordChars \cup SpaceChars \cup {"-"})),
        SpaceChars),
      {"-"}))

Untitled == <<"U", "n", "t", "i", "t", "l", "e", "d">>

\* new Date().toISOString().split('T')[0] on the day of the run
Today == <<"2", "0", "2", "1", "-", "0", "3", "-", "1", "7">>

\* The property object of a page: the field of its type is set, the others
\* are undefined.  date stands for date.start, files for the external and
\* hosted url of each file.
PropKinds ==
  {"title", "rich_text", "date", "multi_select", "files", "url", "checkbox"}

Prop(kind, v) == Some([k \in PropKinds |-> IF k = kind THEN Some(v) ELSE None])

\* x?.trim()
OptTrim(o) == IF o = None THEN None ELSE Some(Trim(Val(o)))

extractMeta(page) ==
  LET props     == page.properties
      titleProp == Coalesce(props.Title, Coalesce(props.title, props.Name))
      title     == Val(Coalesce(FirstPlainText(Chain(titleProp, "title")),
                       Coalesce(FirstPlainText(Chain(titleProp, "rich_text")),
                                Some(Untitled))))
      slugProp  == Coalesce(props.Slug, props.slug)
      slugText  == OptTrim(FirstPlainText(Chain(slugProp, "rich_text")))
      slug      == IF slugText = None \/ Val(slugText) = <<>>
                     THEN titleToSlug(title) ELSE Val(slugText)
      dateProp  == Coalesce(props.PublishDate, Coalesce(props.Date, props.Published))
      date      == Val(Coalesce(Chain(dateProp, "date"), Some(Today)))
      tags      == Val(Coalesce(Chain(props.Tags, "multi_select"), Some(<<>>)))
      descProp  == Coalesce(props.Description,
                            Coalesce(props.Excerpt, props.Summary))
      description ==
        Val(Coalesce(OptTrim(FirstPlainText(Chain(descProp, "rich_text"))),
                     Some(<<>>)))
      coverFiles == Val(Coalesce(Chain(props.CoverImage, "files"), Some(<<>>)))
      coverFirst == IF coverFiles = <<>> THEN None ELSE Some(coverFiles[1])
      coverImage ==
        Val(Coalesce(Chain(coverFirst, "external"),
                     Coalesce(Chain(coverFirst, "file"), Some(<<>>))))
      canonicalUrl == Val(Coalesce(Chain(props.CanonicalURL, "url"), Some(<<>>)))
      featured     == Val(Coalesce(Chain(props.Featured, "checkbox"), Some(FALSE)))
  IN  [title |-> title, slug |-> slug, date |-> date, tags |-> tags,
       description |-> description, coverImage |-> coverImage,
       canonicalUrl |-> canonicalUrl, featured |-> featured]

\* The fixed pieces of text of the front matter and of the index pattern.
TxtFence     == <<"-", "-", "-">>
TxtLayout    == <<"l", "a", "y", "o", "u", "t", ":", " ", "p", "o", "s", "t">>
TxtTitle     == <<"t", "i", "t", "l", "e", ":", " ">>
TxtDate      == <<"d", "a", "t", "e", ":", " ">>
TxtSlug      == <<"s", "l", "u", "g", ":", " ">>
TxtTags      == <<"t", "a", "g", "s", ":", " ", "[">>
TxtExcerpt   == <<"e", "x", "c", "e", "r", "p", "t", ":", " ">>
TxtCover     == <<"c", "o", "v", "e", "r", "_", "i", "m", "a", "g", "e", ":", " ">>
TxtCanonical == <<"c", "a", "n", "o", "n", "i", "c", "a", "l", "_", "u", "r", "l", ":", " ">>
TxtFeatured  == <<"f", "e", "a", "t", "u", "r", "e", "d", ":", " ", "t", "r", "u", "e">>
TxtNotionId  == <<"n", "o", "t", "i", "o", "n", "_", "i", "d", ":", " ">>
TxtIdKey     == <<"n", "o", "t", "i", "o", "n", "_", "i", "d", ":">>
TxtMd        == <<".", "m", "d">>

\* JSON.stringify of a string: quoted, with quotes, backslashes and newlines
\* escaped.
RECURSIVE JsonEscape(_)
JsonEscape(str) ==
  IF str = <<>> THEN <<>>
  ELSE (CASE Head(str) = "\"" -> <<"\\", "\"">>
          [] Head(str) = "\\" -> <<"\\", "\\">>
          [] Head(str) = NL   -> <<"\\", "n">>
          [] OTHER            -> <<Head(str)>>) \o JsonEscape(Tail(str))

JsonStringify(str) == <<"\"">> \o JsonEscape(str) \o <<"\"">>

\* strs.join(sep)
RECURSIVE JoinText(_, _)
JoinText(strs, sep) ==
  IF strs = <<>> THEN <<>>
  ELSE IF Len(strs) = 1 THEN strs[1]
  ELSE strs[1] \o sep \o JoinText(Tail(strs), sep)

buildFrontMatter(meta, notionId) ==
  LET tagList == JoinText([n \in DOMAIN meta.tags |-> JsonStringify(meta.tags[n])],
                          <<",", " ">>)
  IN  JoinText(
        <<TxtFence, TxtLayout,
          TxtTitle \o JsonStringify(meta.title),
          TxtDate \o meta.date,
          TxtSlug \o meta.slug>>
        \o (IF Len(meta.tags) > 0 THEN <<TxtTags \o tagList \o <<"]">>>> ELSE <<>>)
        \o (IF meta.description # <<>>
              THEN <<TxtExcerpt \o JsonStringify(meta.description)>> ELSE <<>>)
        \o (IF meta.coverImage # <<>>
              THEN <<TxtCover \o JsonStringify(meta.coverImage)>> ELSE <<>>)
        \o (IF meta.canonicalUrl # <<>>
              THEN <<TxtCanonical \o JsonStringify(meta.canonicalUrl)>> ELSE <<>>)
        \o (IF meta.featured THEN <<TxtFeatured>> ELSE <<>>)
        \o <<TxtNotionId \o JsonStringify(notionId), TxtFence>>,
        <<NL>>)

\* const content = `${fm}\n\n${body}\n`
ContentText(fm, mdBody) == fm \o <<NL, NL>> \o mdBody \o <<NL>>

\* The characters of the file name postFilename builds.
FilenameText(f) == f[1] \o <<f[2]>> \o f[3] \o TxtMd

\* [a-f0-9-]{36}
TokenLen   == 36
TokenChars == {"a", "b", "c", "d", "e", "f", "-"} \cup Digits

\* The places ^ matches under the m flag: the start of the text and after
\* every line terminator.
LineStarts(str) == {p \in 1..Len(str) : p = 1 \/ str[p - 1] \in {NL, LS}}

StartsWithAt(str, p, piece) ==
  /\ p + Len(piece) - 1 <= Len(str)
  /\ SubSeq(str, p, p + Len(piece) - 1) = piece

\* \s* from position p: the first position that holds no white space
RECURSIVE SkipSpaces(_, _)
SkipSpaces(str, p) ==
  IF p <= Len(str) /\ str[p] \in SpaceChars THEN SkipSpaces(str, p + 1) ELSE p

\* notion_id:\s*"?([a-f0-9-]{36})"? at position p: the captured group, if any
MatchAt(str, p) ==
  IF ~StartsWithAt(str, p, TxtIdKey) THEN None
  ELSE LET q == SkipSpaces(str, p + Len(TxtIdKey))
           g == IF q <= Len(str) /\ str[q] = "\"" THEN q + 1 ELSE q
       IN  IF /\ g + TokenLen - 1 <= Len(str)
              /\ \A n \in g..(g + TokenLen - 1) : str[n] \in TokenChars
             THEN Some(SubSeq(str, g, g + TokenLen - 1))
             ELSE None

\* content.match(/^notion_id:\s*"?([a-f0-9-]{36})"?/m): match[1] of the first
\* match, if there is one
MatchNotionIdText(str) ==
  LET hits == {p \in LineStarts(str) : MatchAt(str, p) # None}
  IN  IF hits = {} THEN None
      ELSE MatchAt(str, CHOOSE p \in hits : \A q \in hits : p <= q)

\* ------------------------------------------------------------- rich text
\* annotations ?? {}
NoAnnotations ==
  [code |-> FALSE, bold |-> FALSE, italic |-> FALSE, strikethrough |-> FALSE]

Wrap(open, str, close) == open \o str \o close

\* if (ann.code) text = `\`${text}\``
WrapCode(str, ann) == IF ann.code THEN Wrap(<<BT>>, str, <<BT>>) ELSE str

\* if (ann.bold && ann.italic) ... else if (ann.bold) ... else if (ann.italic)
WrapEmphasis(str, ann) ==
  IF ann.bold /\ ann.italic THEN Wrap(<<"*", "*", "*">>, str, <<"*", "*", "*">>)
  ELSE IF ann.bold THEN Wrap(<<"*", "*">>, str, <<"*", "*">>)
  ELSE IF ann.italic THEN Wrap(<<"*">>, str, <<"*">>)
  ELSE str

\* if (ann.strikethrough) text = `~~${text}~~`
WrapStrike(str, ann) ==
  IF ann.strikethrough THEN Wrap(<<"~", "~">>, str, <<"~", "~">>) ELSE str

\* if (href) text = `[${text}](${href})`
WrapLink(str, href) ==
  IF href # None /\ Val(href) # <<>>
    THEN Wrap(<<"[">>, str, <<"]", "(">> \o Val(href) \o <<")">>)
    ELSE str

\* Mutant: the link is wrapped before the strikethrough.
SpanToMarkdownMut(item) ==
  LET str == Val(Coalesce(item.plain_text, Some(<<>>)))
      ann == Val(Coalesce(item.annotations, Some(NoAnnotations)))
  IN  IF str = <<>> THEN <<>>
      ELSE WrapStrike(WrapLink(WrapEmphasis(WrapCode(str, ann), ann), item.href),
                      ann)

\* The callback richTextToMarkdown maps over the items.
SpanToMarkdown(item) ==
  LET str == Val(Coalesce(item.plain_text, Some(<<>>)))
      ann == Val(Coalesce(item.annotations, Some(NoAnnotations)))
  IN  IF str = <<>> THEN <<>>
      ELSE WrapLink(WrapStrike(WrapEmphasis(WrapCode(str, ann), ann), ann),
                    item.href)

richTextToMarkdown(richText) ==
  JoinText([n \in DOMAIN richText |-> SpanToMarkdown(richText[n])], <<>>)

\* ----------------------------------------------------------- media blocks
Play == "play"            \* U+25B6 (one character)

TxtWatch == <<Play, " ">> \o <<"W", "a", "t", "c", "h", " ", "v", "i", "d", "e", "o">>

\* Mutant: the hosted file's url, whatever data.type is.
MediaUrlMut(data) == Val(Coalesce(data.file, Some(<<>>)))

\* data.type === 'external' ? (data.external?.url ?? '') : (data.file?.url ?? '')
\* (external and file stand for their url)
MediaUrl(data) ==
  IF data.type = "external" THEN Val(Coalesce(data.external, Some(<<>>)))
                            ELSE Val(Coalesce(data.file, Some(<<>>)))

\* blockToMarkdown's cases 'image' and 'video'
mediaToMarkdown(block) ==
  LET data    == block.data
      url     == MediaUrl(data)
      caption == richTextToMarkdown(Val(Coalesce(data.caption, Some(<<>>))))
  IN  IF block.type = "image"
        THEN <<"!", "[">> \o caption \o <<"]", "(">> \o url \o <<")">>
        ELSE IF caption # <<>>
          THEN <<"[", Play, " ">> \o caption \o <<"]", "(">> \o url \o <<")">>
          ELSE <<"[">> \o TxtWatch \o <<"]", "(">> \o url \o <<")">>

VARIABLES
  env,             \* [token, db]: NOTION_TOKEN / NOTION_DATABASE_ID are set
  remote,          \* the published pages of the database, in listing order
  fs,              \* _posts/: file name -> content
  fs0,             \* _posts/ when the pass started
  pc,              \* position of main()
  exitCode,        \* Running, 0 or 1
  fatal,           \* why the pass aborted: none / config / dir / listing
  existingFiles,   \* main: existingFiles
  notionIdToFile,  \* main: notionIdToFile (token -> file name or NoFile)
  pages,           \* fetchPublishedPages: pages
  cursor,          \* fetchPublishedPages: cursor
  requests,        \* fetchPublishedPages: its requests so far and their responses
  publishedPages,  \* main: publishedPages
  i,               \* index of the page the for-of loop is at
  processedIds,    \* main: processedIds
  stats,           \* main: stats
  staleTodo,       \* entries of notionIdToFile the cleanup loop has yet to visit
  ops,             \* every unlinkSync / writeFileSync call of the pass, in order
  outcome,         \* token -> the counter its page incremented, or "none"
  run,             \* number of the pass
  past,            \* what the earlier passes started from and how they ended
  children,        \* a page's child blocks, in order
  blocks,          \* fetchAllBlocks: blocks
  bcursor,         \* fetchAllBlocks: cursor
  brequests,       \* fetchAllBlocks: its requests so far and their responses
  dpc,             \* position of the block pipeline
  lines,           \* blocksToMarkdown: lines
  body,            \* blocksToMarkdown's result
  tpc,             \* position of the text functions
  arg,             \* the argument of the function under way
  ret,             \* its result
  meta,            \* main: meta
  fname,           \* main: filename, as text
  fileText,        \* main: content, as text
  found            \* index scan: match[1], if the pattern matched

mainVars ==
  <<env, remote, fs, fs0, pc, exitCode, fatal, existingFiles, notionIdToFile,
    pages, cursor, requests, publishedPages, i, processedIds, stats,
    staleTodo, ops, outcome, run, past>>

docVars == <<children, blocks, bcursor, brequests, dpc, lines, body>>

textVars == <<tpc, arg, ret, meta, fname, fileText, found>>

vars == <<mainVars, docVars, textVars>>

Published == remote

ZeroStats == [created |-> 0, updated |-> 0, unchanged |-> 0, errors |-> 0]

\* State of main() before its first statement.
FreshPass ==
  /\ pc = "validate"
  /\ exitCode = Running
  /\ fatal = "none"
  /\ existingFiles = {}
  /\ notionIdToFile = [t \in Tokens |-> NoFile]
  /\ pages = <<>>
  /\ cursor = NoCursor
  /\ requests = <<>>
  /\ publishedPages = <<>>
  /\ i = 1
  /\ processedIds = {}
  /\ stats = ZeroStats
  /\ staleTodo = {}
  /\ ops = <<>>
  /\ outcome = [t \in Tokens |-> "none"]

\* A file a previous pass wrote at f carries f's date and slug in its header.
InitContents(f) ==
  {Absent, Unreadable, Foreign} \cup
  {[kind |-> "post", id |-> t, date |-> f[1], slug |-> f[3], rev |-> r] :
     t \in Tokens, r \in Revs}

InitMain ==
  /\ env \in [token : BOOLEAN, db : BOOLEAN]
  /\ remote \in Listings
  /\ fs \in {g \in [Files -> UNION {InitContents(f) : f \in Files}] :
               \A f \in Files : g[f] \in InitContents(f)}
  /\ fs0 = fs
  /\ run = 1
  /\ past = <<>>
  /\ FreshPass

\* The block pipeline is not running.
DocOff ==
  /\ children = <<>>
  /\ blocks = <<>>
  /\ bcursor = NoCursor
  /\ brequests = <<>>
  /\ dpc = "off"
  /\ lines = <<>>
  /\ body = <<>>

\* The text functions are not running.
TextOff ==
  /\ tpc = "off"
  /\ arg = None
  /\ ret = None
  /\ meta = None
  /\ fname = None
  /\ fileText = None
  /\ found = None

Init == InitMain /\ DocOff /\ TextOff

\* process.exit(1) / falling off the end of main()
Exit(code, why) ==
  /\ pc' = "exit"
  /\ exitCode' = code
  /\ fatal' = why

\* if (!NOTION_TOKEN) ... if (!DATABASE_ID) ... process.exit(1)
ValidateEnv ==
  /\ pc = "validate"
  /\ IF env.token /\ env.db
       THEN pc' = "index" /\ UNCHANGED <<exitCode, fatal>>
       ELSE Exit(1, "config")
  /\ UNCHANGED <<env, remote, fs, fs0, existingFiles, notionIdToFile, pages,
                 cursor, requests, publishedPages, i, processedIds, stats,
                 staleTodo, ops, outcome, run, past, docVars, textVars>>

\* The files of _posts/ whose content matches the notion_id pattern for t.
Carriers(t) == {f \in Files : MatchNotionId(fs[f]) = t}

\* mkdirSync, readdirSync and the index scan.  readdirSync's order is not
\* specified, and a later file replaces an earlier one with the same id, so
\* any carrier of a token can be the one the Map ends up with.
IndexExisting ==
  /\ pc = "index"
  /\ \/ /\ Exit(1, "dir")        \* mkdirSync / readdirSync throws: main().catch
        /\ UNCHANGED <<existingFiles, notionIdToFile, staleTodo>>
     \/ /\ existingFiles' = {f \in Files : fs[f].kind # "absent"}
        /\ notionIdToFile' \in
             {m \in [Tokens -> Files \cup {NoFile}] :
                \A t \in Tokens :
                  IF Carriers(t) = {} THEN m[t] = NoFile ELSE m[t] \in Carriers(t)}
        /\ staleTodo' = {t \in Tokens : notionIdToFile'[t] # NoFile}
        /\ pc' = "list"
        /\ UNCHANGED <<exitCode, fatal>>
  /\ UNCHANGED <<env, remote, fs, fs0, pages, cursor, requests, publishedPages,
                 i, processedIds, stats, ops, outcome, run, past, docVars, textVars>>

\* notion.databases.query({..., start_cursor})
Query(c) == Responses(remote, c)

\* Mutant: every request starts from the beginning.
StartCursorMut(c) == NoCursor

\* start_cursor: cursor
StartCursor(c) == c

\* A request that threw: there is no response.
Thrown == [results |-> <<>>, has_more |-> FALSE, next_cursor |-> NoCursor]

\* A request as the API saw it and the response it gave.
Exchange(c, res, ok) ==
  [start_cursor |-> c, ok |-> ok, has_more |-> res.has_more,
   next_cursor |-> res.next_cursor]

\* Mutant: the loop stops after the first response.
NextCursorMut(res) == NoCursor

\* cursor = res.has_more ? res.next_cursor : undefined
NextCursor(res) == IF res.has_more THEN res.next_cursor ELSE NoCursor

\* Mutant: the loop ends one page early.
LoopPcMut(list, k) == IF k < Len(list) THEN "page" ELSE "stale"

\* pc after the for-of loop moved to index k of list
LoopPc(list, k) == IF k <= Len(list) THEN "page" ELSE "stale"

\* Mutant: the pass goes on with the pages fetched so far.
OnListingErrorMut ==
  /\ fatal' = "listing"
  /\ publishedPages' = pages
  /\ pc' = LoopPc(pages, 1)
  /\ UNCHANGED <<exitCode, pages, cursor>>

\* catch (err) { console.error(...); process.exit(1); }
OnListingError ==
  /\ Exit(1, "listing")
  /\ UNCHANGED <<pages, cursor, publishedPages>>

\* One iteration of fetchPublishedPages' do-while; a failed request throws
\* into main's catch.
QueryDatabase ==
  /\ pc = "list"
  /\ \/ /\ OnListingError
        /\ requests' = Append(requests, Exchange(StartCursor(cursor), Thrown, FALSE))
     \/ \E res \in Query(StartCursor(cursor)) :
        /\ requests' = Append(requests, Exchange(StartCursor(cursor), res, TRUE))
        /\ pages' = pages \o res.results
        /\ cursor' = NextCursor(res)
        /\ pc' = IF cursor' # NoCursor THEN "list" ELSE "listed"
        /\ UNCHANGED <<exitCode, fatal, publishedPages>>
  /\ UNCHANGED <<env, remote, fs, fs0, existingFiles, notionIdToFile, i,
                 processedIds, stats, staleTodo, ops, outcome, run, past,
                 docVars, textVars>>

\* return pages; publishedPages = await fetchPublishedPages()
ReturnPages ==
  /\ pc = "listed"
  /\ publishedPages' = pages
  /\ pages' = <<>>
  /\ requests' = <<>>
  /\ pc' = LoopPc(publishedPages', 1)
  /\ UNCHANGED <<env, remote, fs, fs0, exitCode, fatal, existingFiles,
                 notionIdToFile, cursor, i, processedIds, stats, staleTodo,
                 ops, outcome, run, past, docVars, textVars>>

Page == publishedPages[i]

\* Mutant: an unchanged page is not counted.
BumpMut(field) ==
  IF field = "unchanged" THEN stats ELSE [stats EXCEPT ![field] = @ + 1]

Bump(field) == [stats EXCEPT ![field] = @ + 1]

\* Mutant: an error leaves the loop.
NextAfterMut(counter) ==
  IF counter = "errors" THEN "stale" ELSE LoopPc(publishedPages, i + 1)

\* Where main() goes once the current page is counted: `continue` after a
\* metadata error, and the end of the loop body after the try/catch.
NextAfter(counter) == LoopPc(publishedPages, i + 1)

\* stats.<counter>++ for the current page, then on to the next page
Count(counter) ==
  /\ stats' = Bump(counter)
  /\ outcome' = [outcome EXCEPT ![Page.id] = counter]
  /\ i' = i + 1
  /\ pc' = NextAfter(counter)

\* processedIds.add(page.id); meta = extractMeta(page)
PageBegin ==
  /\ pc = "page"
  /\ processedIds' = processedIds \cup {Page.id}
  /\ \/ /\ pc' = "blocks"
        /\ UNCHANGED <<stats, outcome, i>>
     \/ Count("errors")          \* extractMeta throws
  /\ UNCHANGED <<env, remote, fs, fs0, exitCode, fatal, existingFiles,
                 notionIdToFile, pages, cursor, requests, publishedPages,
                 staleTodo, ops, run, past, docVars, textVars>>

\* prevFilename && prevFilename !== filename
NeedsRename(page) ==
  /\ notionIdToFile[page.id] # NoFile
  /\ notionIdToFile[page.id] # TargetOf(page)

\* fetchAllBlocks, blocksToMarkdown, buildFrontMatter, postFilename
FetchBlocks ==
  /\ pc = "blocks"
  /\ \/ /\ pc' = IF NeedsRename(Page) THEN "rename" ELSE "write"
        /\ UNCHANGED <<stats, outcome, i>>
     \/ Count("errors")          \* a blocks.children.list request throws
  /\ UNCHANGED <<env, remote, fs, fs0, exitCode, fatal, existingFiles,
                 notionIdToFile, pages, cursor, requests, publishedPages,
                 processedIds, staleTodo, ops, run, past, docVars, textVars>>

\* A file-system call of the pass: what, in which phase, on which file, for
\* which token, whether it returned, the content written, and what the file
\* held when the call was made.
Op(kind, phase, f, t, ok, content) ==
  [op |-> kind, phase |-> phase, file |-> f, id |-> t, ok |-> ok,
   content |-> content, before |-> fs[f]]

\* fs.unlinkSync(f): throws when f is absent, and may throw otherwise.
Unlink(phase, f, t, ok) ==
  /\ ok => fs[f].kind # "absent"
  /\ fs' = IF ok THEN [fs EXCEPT ![f] = Absent] ELSE fs
  /\ ops' = Append(ops, Op("unlink", phase, f, t, ok, Absent))

\* Mutant: a failed unlinkSync reaches the page's catch block.
AfterRenameDeleteMut(ok) ==
  IF ok THEN pc' = "write" /\ UNCHANGED <<stats, outcome, i>>
        ELSE Count("errors")

\* try { fs.unlinkSync(...); console.log(renamed) } catch { /* that's fine */ }
\* and on to the compare-and-write, whether or not unlinkSync returned.
AfterRenameDelete(ok) ==
  /\ pc' = "write"
  /\ UNCHANGED <<stats, outcome, i>>

\* Mutant: the file of another index entry is taken, when there is one.
PrevFilenameMut(page) ==
  LET others == {u \in Tokens : u # page.id /\ notionIdToFile[u] # NoFile}
  IN  IF others = {} THEN notionIdToFile[page.id]
      ELSE notionIdToFile[CHOOSE u \in others : TRUE]

\* const prevFilename = notionIdToFile.get(page.id)
PrevFilename(page) == notionIdToFile[page.id]

RenameOld ==
  /\ pc = "rename"
  /\ \E ok \in BOOLEAN :
       /\ Unlink("rename", PrevFilename(Page), Page.id, ok)
       /\ AfterRenameDelete(ok)
  /\ UNCHANGED <<env, remote, fs0, exitCode, fatal, existingFiles,
                 notionIdToFile, pages, cursor, requests, publishedPages,
                 processedIds, staleTodo, run, past, docVars, textVars>>

\* Mutant: the index is not consulted.
IsNewMut(page) == TargetOf(page) \notin existingFiles

\* Mutant: the directory listing is not consulted.
IsNewMutDir(page) == notionIdToFile[page.id] = NoFile

\* const isNew = !prevFilename && !existingFiles.includes(filename)
IsNew(page) ==
  /\ notionIdToFile[page.id] = NoFile
  /\ TargetOf(page) \notin existingFiles

\* Mutant: the comparison is skipped.
NeedsWriteMut(existing, content) == TRUE

\* let needsWrite = true;
\* if (fs.existsSync(filePath)) needsWrite = readFileSync(filePath) !== content
NeedsWrite(existing, content) ==
  IF existing.kind # "absent" THEN existing # content ELSE TRUE

\* What a writeFileSync that throws can leave at the path: the file as it
\* was (the open failed), an empty file (truncated, nothing written), or the
\* beginning of the content.
FailedWriteLeaves(existing, content) ==
  {existing, Foreign, [content EXCEPT !.rev = "cut"]}

\* existsSync / readFileSync / compare / writeFileSync
WriteFile ==
  /\ pc = "write"
  /\ LET filename == TargetOf(Page)
         content  == Compose(Page)
     IN
     IF fs[filename].kind = "unreadable"
       THEN /\ Count("errors")                    \* readFileSync throws
            /\ UNCHANGED <<fs, ops>>
       ELSE IF ~NeedsWrite(fs[filename], content)
         THEN /\ Count("unchanged")
              /\ UNCHANGED <<fs, ops>>
         ELSE \/ /\ fs' = [fs EXCEPT ![filename] = content]
                 /\ ops' = Append(ops, Op("write", "write", filename, Page.id,
                                          TRUE, content))
                 /\ Count(IF IsNew(Page) THEN "created" ELSE "updated")
              \/ /\ \E left \in FailedWriteLeaves(fs[filename], content) :
                      fs' = [fs EXCEPT ![filename] = left]
                 /\ ops' = Append(ops, Op("write", "write", filename, Page.id,
                                          FALSE, content))
                 /\ Count("errors")               \* writeFileSync throws
  /\ UNCHANGED <<env, remote, fs0, exitCode, fatal, existingFiles,
                 notionIdToFile, pages, cursor, requests, publishedPages,
                 processedIds, staleTodo, run, past, docVars, textVars>>

\* Mutant: the negation is lost.
IsStaleMut(t) == t \in processedIds

\* Mutant: a page that failed counts as not processed.
IsStaleMutErr(t) == t \notin processedIds \/ outcome[t] = "errors"

\* if (!processedIds.has(notionId))
IsStale(t) == t \notin processedIds

\* One iteration of the cleanup loop over notionIdToFile.
RemoveStale ==
  /\ pc = "stale"
  /\ \E t \in staleTodo :
       /\ staleTodo' = staleTodo \ {t}
       /\ IF IsStale(t)
            THEN \E ok \in BOOLEAN : Unlink("stale", notionIdToFile[t], t, ok)
            ELSE UNCHANGED <<fs, ops>>
  /\ UNCHANGED <<env, remote, fs0, pc, exitCode, fatal, existingFiles,
                 notionIdToFile, pages, cursor, requests, publishedPages, i,
                 processedIds, stats, outcome, run, past, docVars, textVars>>

\* Mutant: the summary never fails the process.
ExitStatusMut(st) == 0

\* if (stats.errors > 0) process.exit(1)
ExitStatus(st) == IF st.errors > 0 THEN 1 ELSE 0

Summary ==
  /\ pc = "stale"
  /\ staleTodo = {}
  /\ Exit(ExitStatus(stats), "none")
  /\ UNCHANGED <<env, remote, fs, fs0, existingFiles, notionIdToFile, pages,
                 cursor, requests, publishedPages, i, processedIds, stats,
                 staleTodo, ops, outcome, run, past, docVars, textVars>>

Next ==
  \/ ValidateEnv
  \/ IndexExisting
  \/ QueryDatabase
  \/ ReturnPages
  \/ PageBegin
  \/ FetchBlocks
  \/ RenameOld
  \/ WriteFile
  \/ RemoveStale
  \/ Summary

Spec == Init /\ [][Next]_vars

\* main() is one thread of control in which every call is awaited: a call
\* returns or throws, and the statement after it runs.  The pass keeps taking
\* steps for as long as one is left to take.
SpecLive == Init /\ [][Next]_vars /\ WF_vars(Next)

\* The next scheduled run of the script: the database serves the same
\* published set, _posts/ is as the last pass left it.
Rerun ==
  /\ pc = "exit"
  /\ run < MaxRuns
  /\ run' = run + 1
  /\ past' = Append(past, [fs0 |-> fs0, exitCode |-> exitCode, fatal |-> fatal,
                           stats |-> stats, ops |-> ops])
  /\ fs0' = fs
  /\ pc' = "validate"
  /\ exitCode' = Running
  /\ fatal' = "none"
  /\ existingFiles' = {}
  /\ notionIdToFile' = [t \in Tokens |-> NoFile]
  /\ pages' = <<>>
  /\ cursor' = NoCursor
  /\ requests' = <<>>
  /\ publishedPages' = <<>>
  /\ i' = 1
  /\ processedIds' = {}
  /\ stats' = ZeroStats
  /\ staleTodo' = {}
  /\ ops' = <<>>
  /\ outcome' = [t \in Tokens |-> "none"]
  /\ UNCHANGED <<env, remote, fs, docVars, textVars>>

NextRerun == Next \/ Rerun

SpecRerun == Init /\ [][NextRerun]_vars

\* ------------------------------------------------ the block pipeline alone
\* notion.blocks.children.list({block_id, start_cursor, page_size: 100})
Children(c) == Responses(children, c)

\* One iteration of fetchAllBlocks' do-while; a failed request throws.
ListChildren ==
  /\ dpc = "fetch"
  /\ \/ /\ dpc' = "failed"
        /\ brequests' = Append(brequests, Exchange(StartCursor(bcursor), Thrown, FALSE))
        /\ UNCHANGED <<blocks, bcursor>>
     \/ \E res \in Children(StartCursor(bcursor)) :
        /\ brequests' = Append(brequests, Exchange(StartCursor(bcursor), res, TRUE))
        /\ blocks' = blocks \o res.results
        /\ bcursor' = NextCursor(res)
        /\ dpc' = IF bcursor' # NoCursor THEN "fetch" ELSE "convert"
  /\ UNCHANGED <<children, lines, body>>
  /\ UNCHANGED <<mainVars, textVars>>

\* const body = blocksToMarkdown(blocks)
Assemble ==
  /\ dpc = "convert"
  /\ lines' = MdLines(blocks, 1, <<>>)
  /\ body' = blocksToMarkdown(blocks)
  /\ dpc' = "done"
  /\ UNCHANGED <<children, blocks, bcursor, brequests>>
  /\ UNCHANGED <<mainVars, textVars>>

\* main() is past validation and the index scan of an empty _posts/.
InitListing ==
  /\ env = [token |-> TRUE, db |-> TRUE]
  /\ remote \in Listings
  /\ fs = [f \in Files |-> Absent]
  /\ fs0 = fs
  /\ run = 1
  /\ past = <<>>
  /\ pc = "list"
  /\ exitCode = Running
  /\ fatal = "none"
  /\ existingFiles = {}
  /\ notionIdToFile = [t \in Tokens |-> NoFile]
  /\ pages = <<>>
  /\ cursor = NoCursor
  /\ requests = <<>>
  /\ publishedPages = <<>>
  /\ i = 1
  /\ processedIds = {}
  /\ stats = ZeroStats
  /\ staleTodo = {}
  /\ ops = <<>>
  /\ outcome = [t \in Tokens |-> "none"]

\* main() is not running.
MainOff ==
  /\ env = [token |-> TRUE, db |-> TRUE]
  /\ remote = <<>>
  /\ fs = [f \in Files |-> Absent]
  /\ fs0 = fs
  /\ run = 1
  /\ past = <<>>
  /\ pc = "off"
  /\ exitCode = Running
  /\ fatal = "none"
  /\ existingFiles = {}
  /\ notionIdToFile = [t \in Tokens |-> NoFile]
  /\ pages = <<>>
  /\ cursor = NoCursor
  /\ requests = <<>>
  /\ publishedPages = <<>>
  /\ i = 1
  /\ processedIds = {}
  /\ stats = ZeroStats
  /\ staleTodo = {}
  /\ ops = <<>>
  /\ outcome = [t \in Tokens |-> "none"]

InitBlocks ==
  /\ children \in BlockLists
  /\ blocks = <<>>
  /\ bcursor = NoCursor
  /\ brequests = <<>>
  /\ dpc = "fetch"
  /\ lines = <<>>
  /\ body = <<>>

\* Each paginated fetcher on its own, and the block pipeline.
InitDoc ==
  /\ (InitListing /\ DocOff) \/ (MainOff /\ InitBlocks)
  /\ TextOff

NextDoc ==
  \/ QueryDatabase
  \/ ReturnPages
  \/ ListChildren
  \/ Assemble

SpecDoc == InitDoc /\ [][NextDoc]_vars

\* ------------------------------------------------- the text functions alone
MaxTitleLen == 3       \* characters of a title given to titleToSlug

\* The characters titles are made of: a capital, a small letter, an
\* underscore, a hyphen, white space and punctuation.
TitleChars == {"A", "b", "_", "-", " ", "!"}

Titles == UNION {[1..n -> TitleChars] : n \in 0..MaxTitleLen}

HelloWorld == <<"H", "e", "l", "l", "o", ",", " ", "W", "o", "r", "l", "d", "!">>

\* Page ids: 36 characters, hexadecimal digits in groups joined by hyphens.
IdText(c) == [n \in 1..TokenLen |-> IF n \in {9, 14, 19, 24} THEN "-" ELSE c]

PageIds == {IdText("1"), IdText("a")}

\* A line that reads like the header's id line, naming another id.
FakeIdLine == TxtNotionId \o IdText("f")

\* Text that a Notion property can hold.
TxtHi       == <<"H", "i">>
TxtName     == <<"A", "n", "n">>
TxtLower    == <<"l", "o", "w">>
TxtQuoted   == <<"a", "\"", "b", "\\">>
TxtMyPost   == <<"M", "y", "-", "P", "o", "s", "t">>
TxtPadded   == <<" ", "a", "-", "b", " ">>
TxtTwoLines == <<"x", NL>> \o FakeIdLine
TxtTwoParts == <<"x", LS>> \o FakeIdLine
TxtUrl      == <<"h", "t", "t", "p", "s", ":", "/", "/", "x", "/", "y">>
TxtDay      == <<"2", "0", "2", "1", "-", "0", "3", "-", "1", "6">>
TxtDayTime  == <<"2", "0", "2", "1", "-", "0", "3", "-", "1", "6", "T", "1", "0", ":", "0", "0", ":", "0", "0", ".", "0", "0", "0", "+", "0", "0", ":", "0", "0">>

NoExtras ==
  [Tags |-> None, Description |-> None, Excerpt |-> None, Summary |-> None,
   CoverImage |-> None, CanonicalURL |-> None, Featured |-> None]

Extras ==
  { NoExtras,
    [NoExtras EXCEPT
       !.Tags         = Prop("multi_select", <<TxtHi, TxtQuoted>>),
       !.Description  = Prop("rich_text", <<TxtPadded>>),
       !.CoverImage   = Prop("files", <<[external |-> None, file |-> Some(TxtUrl)]>>),
       !.CanonicalURL = Prop("url", TxtUrl),
       !.Featured     = Prop("checkbox", TRUE)],
    [NoExtras EXCEPT
       !.Tags         = Prop("multi_select", <<TxtTwoLines>>),
       !.Excerpt      = Prop("rich_text", <<TxtTwoLines>>),
       !.CoverImage   = Prop("files", <<[external |-> Some(TxtTwoLines),
                                         file |-> Some(TxtUrl)]>>),
       !.CanonicalURL = Prop("url", TxtTwoLines)] }

\* The pages extractMeta is given.
MetaPages ==
  {[id |-> id,
    properties |->
      [Title |-> ti, title |-> tl, Name |-> na, Slug |-> sl, slug |-> ss,
       PublishDate |-> pd, Date |-> da, Published |-> None,
       Tags |-> ex.Tags, Description |-> ex.Description,
       Excerpt |-> ex.Excerpt, Summary |-> ex.Summary,
       CoverImage |-> ex.CoverImage, CanonicalURL |-> ex.CanonicalURL,
       Featured |-> ex.Featured]] :
     id \in PageIds,
     ti \in {None, Prop("title", <<>>), Prop("title", <<TxtHi>>),
             Prop("title", <<TxtTwoLines>>), Prop("title", <<TxtTwoParts>>)},
     tl \in {None, Prop("title", <<TxtLower>>)},
     na \in {None, Prop("rich_text", <<TxtName>>)},
     sl \in {None, Prop("rich_text", <<>>), Prop("rich_text", <<TxtMyPost>>),
             Prop("rich_text", <<TxtPadded>>), Prop("rich_text", <<TxtTwoLines>>)},
     ss \in {None, Prop("rich_text", <<TxtLower>>)},
     pd \in {None, Prop("date", TxtDay)},
     da \in {None, Prop("date", TxtDayTime)},
     ex \in Extras}

MaxSpans == 2          \* items of a rich-text array

Annotations ==
  [code : BOOLEAN, bold : BOOLEAN, italic : BOOLEAN, strikethrough : BOOLEAN]

Span(str, ann, href) == [plain_text |-> str, annotations |-> ann, href |-> href]

\* Every shape of a single item.
Spans ==
  {Span(str, ann, href) :
     str \in {None, Some(<<>>), Some(<<"t">>)},
     ann \in {None} \cup {Some(a) : a \in Annotations},
     href \in {None, Some(<<>>), Some(<<"u">>)}}

\* The items longer arrays are made of.
ListSpans ==
  { Span(Some(<<"t">>), None, None),
    Span(Some(<<>>), Some([NoAnnotations EXCEPT !.bold = TRUE]), Some(<<"u">>)),
    Span(Some(<<"*">>), Some([NoAnnotations EXCEPT !.italic = TRUE]), None),
    Span(Some(<<"s">>), Some([NoAnnotations EXCEPT !.strikethrough = TRUE,
                                                   !.code = TRUE]), Some(<<"u">>)) }

RichTexts ==
  {<<sp>> : sp \in Spans} \cup UNION {[1..n -> ListSpans] : n \in 0..MaxSpans}

\* Image and video blocks: data.type, the url of external and of file when
\* present, and the caption.
MediaBlocks ==
  {[type |-> ty,
    data |-> [type |-> dt, external |-> ex, file |-> fi, caption |-> ca]] :
     ty \in {"image", "video"},
     dt \in {"external", "file"},
     ex \in {None, Some(<<"e">>)},
     fi \in {None, Some(<<"f">>)},
     ca \in {None, Some(<<>>), Some(<<Span(Some(<<"c">>), None, None)>>)}}

\* Bodies blocksToMarkdown can return.
Bodies == {<<>>, TxtHi, FakeIdLine}

InitText ==
  /\ \/ tpc = "slugify" /\ arg \in Titles \cup {HelloWorld}
     \/ tpc = "extract" /\ arg \in [page : MetaPages, body : Bodies]
     \/ tpc = "format"  /\ arg \in RichTexts
     \/ tpc = "media"   /\ arg \in MediaBlocks
  /\ ret = None
  /\ meta = None
  /\ fname = None
  /\ fileText = None
  /\ found = None

\* titleToSlug(title)
Slugify ==
  /\ tpc = "slugify"
  /\ ret' = titleToSlug(arg)
  /\ tpc' = "slugified"
  /\ UNCHANGED <<arg, meta, fname, fileText, found>>
  /\ UNCHANGED <<mainVars, docVars>>

\* meta = extractMeta(page)
ExtractMeta ==
  /\ tpc = "extract"
  /\ meta' = extractMeta(arg.page)
  /\ tpc' = "build"
  /\ UNCHANGED <<arg, ret, fname, fileText, found>>
  /\ UNCHANGED <<mainVars, docVars>>

\* frontMatter = buildFrontMatter(meta, page.id);
\* filename = postFilename(meta.date, meta.slug);
\* content = `${frontMatter}\n\n${body}\n`
BuildFile ==
  /\ tpc = "build"
  /\ fname' = FilenameText(postFilename(meta.date, meta.slug))
  /\ fileText' = ContentText(buildFrontMatter(meta, arg.page.id), arg.body)
  /\ tpc' = "scan"
  /\ UNCHANGED <<arg, ret, meta, found>>
  /\ UNCHANGED <<mainVars, docVars>>

\* The index scan of a later run reads the file.
ScanFile ==
  /\ tpc = "scan"
  /\ found' = MatchNotionIdText(fileText)
  /\ tpc' = "scanned"
  /\ UNCHANGED <<arg, ret, meta, fname, fileText>>
  /\ UNCHANGED <<mainVars, docVars>>

\* richTextToMarkdown(richText)
FormatRichText ==
  /\ tpc = "format"
  /\ ret' = richTextToMarkdown(arg)
  /\ tpc' = "formatted"
  /\ UNCHANGED <<arg, meta, fname, fileText, found>>
  /\ UNCHANGED <<mainVars, docVars>>

\* blockToMarkdown(block) for an image or video block
ConvertMedia ==
  /\ tpc = "media"
  /\ ret' = mediaToMarkdown(arg)
  /\ tpc' = "converted"
  /\ UNCHANGED <<arg, meta, fname, fileText, found>>
  /\ UNCHANGED <<mainVars, docVars>>

NextText ==
  \/ Slugify
  \/ ExtractMeta
  \/ BuildFile
  \/ ScanFile
  \/ FormatRichText
  \/ ConvertMedia

\* The text functions on their own.
InitTextAlone == MainOff /\ DocOff /\ InitText

SpecText == InitTextAlone /\ [][NextText]_vars

\* ================================================================ claims
PubIndex == 1..Len(publishedPages)

\* The pass ran to the summary (it did not abort).
PassDone == pc = "exit" /\ fatal = "none"

\* The for-of loop is past page k.
Finished(k) == k \in PubIndex /\ k < i

OpIndex(os) == 1..Len(os)

RenameUnlinks(t) ==
  {n \in OpIndex(ops) :
     ops[n].op = "unlink" /\ ops[n].phase = "rename" /\ ops[n].id = t}

StaleUnlinks(t) ==
  {n \in OpIndex(ops) :
     ops[n].op = "unlink" /\ ops[n].phase = "stale" /\ ops[n].id = t}

Writes(t) == {n \in OpIndex(ops) : ops[n].op = "write" /\ ops[n].id = t}

\* No unlinkSync or writeFileSync call of os threw.
NoFailedOp(os) == \A n \in OpIndex(os) : os[n].ok

\* No two published pages resolve to the same file name.
DistinctTargets ==
  \A a, b \in PubIndex :
    a # b => TargetOf(publishedPages[a]) # TargetOf(publishedPages[b])

\* Every token is in the header of at most one file of g.
UniqueTokens(g) ==
  \A t \in Tokens : Cardinality({f \in Files : MatchNotionId(g[f]) = t}) <= 1

\* Page p has exactly one local file: its target, holding its content.
HasItsFile(p) ==
  /\ fs[TargetOf(p)] = Compose(p)
  /\ \A f \in Files : f # TargetOf(p) => MatchNotionId(fs[f]) # p.id

\* C1: after a pass that finishes with errors = 0, every published page has
\* exactly one local file: its target file exists with the content composed in
\* this pass and no other file carries its token.  Stated here for the passes
\* the spec does not set aside: pairwise distinct targets, tokens unique in the
\* initial files, and no unlinkSync that threw.
C1_OneFilePerPublishedPage ==
  (PassDone /\ stats.errors = 0 /\ DistinctTargets /\ UniqueTokens(fs0)
     /\ NoFailedOp(ops))
    => \A k \in PubIndex : HasItsFile(publishedPages[k])

\* C2: a second run against the same published set writes nothing, deletes
\* nothing and counts every published page unchanged.  Stated for a first run
\* that exited 0 from unique tokens with no failed call, distinct targets, and
\* a second run in which nothing threw.
C2_SecondRunIdle ==
  (run = 2 /\ PassDone /\ stats.errors = 0 /\ NoFailedOp(ops) /\ DistinctTargets
     /\ past[1].fatal = "none" /\ past[1].exitCode = 0
     /\ NoFailedOp(past[1].ops) /\ UniqueTokens(past[1].fs0))
    => /\ ops = <<>>
       /\ stats = [ZeroStats EXCEPT !.unchanged = Len(publishedPages)]

\* C3 as claimed: every processed published page whose indexed file name
\* differs from its target has exactly one delete, of the old name, exactly
\* one write, of the new name, with its token in the header, and is counted
\* updated.
C3_RenameOneDeleteOneWrite ==
  \A k \in PubIndex :
    (Finished(k) /\ NeedsRename(publishedPages[k])) =>
      LET p == publishedPages[k] IN
      /\ Cardinality({n \in RenameUnlinks(p.id) :
                        ops[n].ok /\ ops[n].file = notionIdToFile[p.id]}) = 1
      /\ Cardinality({n \in Writes(p.id) :
                        /\ ops[n].ok
                        /\ ops[n].file = TargetOf(p)
                        /\ MatchNotionId(ops[n].content) = p.id}) = 1
      /\ outcome[p.id] = "updated"

\* C3 amended: for a processed published page whose indexed file name differs
\* from its target, the page is never counted created; every delete made for
\* it is of the old name and every write of the new name with its token in
\* the header, at most one of each; if the page is counted updated or
\* unchanged the delete was attempted exactly once; it is counted updated
\* exactly when its write succeeded, and unchanged only without a write.
C3_RenameCorrect ==
  \A k \in PubIndex :
    (Finished(k) /\ NeedsRename(publishedPages[k])) =>
      LET p == publishedPages[k]
          t == p.id
          deletes == RenameUnlinks(t)
          writes  == Writes(t)
      IN
      /\ outcome[t] \in {"updated", "unchanged", "errors"}
      /\ Cardinality(deletes) <= 1
      /\ \A n \in deletes : ops[n].file = notionIdToFile[t]
      /\ Cardinality(writes) <= 1
      /\ \A n \in writes :
           /\ ops[n].file = TargetOf(p)
           /\ ops[n].content = Compose(p)
           /\ MatchNotionId(ops[n].content) = t
      /\ outcome[t] \in {"updated", "unchanged"} => Cardinality(deletes) = 1
      /\ outcome[t] = "updated" <=> \E n \in writes : ops[n].ok
      /\ outcome[t] = "unchanged" => writes = {}

\* A renamed page whose old file was deleted and whose new file was written.
C3_Witness ==
  \E k \in PubIndex :
    /\ Finished(k)
    /\ NeedsRename(publishedPages[k])
    /\ outcome[publishedPages[k].id] = "updated"
    /\ \E n \in RenameUnlinks(publishedPages[k].id) : ops[n].ok
    /\ fs[TargetOf(publishedPages[k])] = Compose(publishedPages[k])

\* Tokens of the index that no published page has.
StaleTokens ==
  {t \in Tokens :
     /\ notionIdToFile[t] # NoFile
     /\ \A k \in 1..Len(Published) : Published[k].id # t}

PageCount == stats.created + stats.updated + stats.unchanged + stats.errors

\* C4 as claimed: at the end of the pass the indexed file of every stale token
\* has been deleted by the cleanup, and the token is in no counter.
C4_StaleFileDeleted ==
  PassDone =>
    \A t \in StaleTokens :
      /\ \E n \in StaleUnlinks(t) : ops[n].ok
      /\ fs[notionIdToFile[t]].kind = "absent"
      /\ outcome[t] = "none"

\* C4 amended: at the end of the pass the cleanup has called unlinkSync exactly
\* once for every stale token, on its indexed file; the file is gone unless
\* that call threw; the token is in no counter, and the counters add up to the
\* number of published pages.
C4_StaleCleanup ==
  PassDone =>
    /\ \A t \in StaleTokens :
         /\ Cardinality(StaleUnlinks(t)) = 1
         /\ \A n \in StaleUnlinks(t) :
              /\ ops[n].file = notionIdToFile[t]
              /\ ops[n].ok => fs[notionIdToFile[t]].kind = "absent"
         /\ outcome[t] = "none"
    /\ PageCount = Len(publishedPages)

\* A pass that ended after deleting the file of an unpublished page.
C4_Witness ==
  /\ PassDone
  /\ \E t \in StaleTokens :
       /\ \E n \in StaleUnlinks(t) : ops[n].ok
       /\ fs0[notionIdToFile[t]].kind = "post"
       /\ fs[notionIdToFile[t]].kind = "absent"

\* Published pages that incremented stats.errors.
Failing == {k \in PubIndex : outcome[publishedPages[k].id] = "errors"}

\* C5: a page whose metadata extraction, block fetch or write throws does not
\* stop the pass: the process has no exit status while pages are processed;
\* at the summary every published page has been processed and counted, the
\* cleanup has visited every index entry and called unlinkSync for every stale
\* one, every page counted created or updated had its content written to its
\* target and every page counted unchanged had no write, errors is the number
\* of failing pages, and the exit status is non-zero exactly when there is one.
C5_FailureIsolation ==
  /\ pc \in {"page", "blocks", "rename", "write", "stale"} => exitCode = Running
  /\ PassDone =>
       /\ i = Len(publishedPages) + 1
       /\ \A k \in PubIndex : outcome[publishedPages[k].id] # "none"
       /\ staleTodo = {}
       /\ \A t \in StaleTokens : StaleUnlinks(t) # {}
       /\ \A k \in PubIndex :
            LET p == publishedPages[k] IN
            /\ outcome[p.id] \in {"created", "updated"} =>
                 \E n \in Writes(p.id) :
                   /\ ops[n].ok
                   /\ ops[n].file = TargetOf(p)
                   /\ ops[n].content = Compose(p)
            /\ outcome[p.id] = "unchanged" => Writes(p.id) = {}
       /\ stats.errors = Cardinality(Failing)
       /\ exitCode = (IF Failing # {} THEN 1 ELSE 0)

\* A finished pass in which a page failed and a later page was written.
C5_Witness ==
  /\ PassDone
  /\ exitCode = 1
  /\ \E a, b \in PubIndex :
       /\ a < b
       /\ outcome[publishedPages[a].id] = "errors"
       /\ outcome[publishedPages[b].id] \in {"created", "updated"}
       /\ fs[TargetOf(publishedPages[b])] = Compose(publishedPages[b])

ConfigAbsent == ~env.token \/ ~env.db

\* C6 as claimed: the process exits non-zero exactly when NOTION_TOKEN or
\* NOTION_DATABASE_ID is absent, the listing fails, or errors > 0.
C6_ExitStatusAsClaimed ==
  pc = "exit" =>
    /\ exitCode \in {0, 1}
    /\ exitCode # 0 <=> (ConfigAbsent \/ fatal = "listing" \/ stats.errors > 0)

\* C6 amended: the process exits non-zero exactly when NOTION_TOKEN or
\* NOTION_DATABASE_ID is absent, creating or reading _posts/ throws, the
\* listing fails, or errors > 0 at the end of the pass; otherwise it exits 0.
C6_ExitStatus ==
  pc = "exit" =>
    /\ exitCode \in {0, 1}
    /\ exitCode # 0 <=>
         (ConfigAbsent \/ fatal \in {"dir", "listing"} \/ stats.errors > 0)
    /\ ConfigAbsent => (fatal = "config" /\ publishedPages = <<>>)

\* A pass that ran to the summary and exited 1 because a page failed.
C6_Witness ==
  /\ pc = "exit"
  /\ exitCode = 1
  /\ ~ConfigAbsent
  /\ fatal = "none"
  /\ stats.errors > 0

\* C7: when a request of the published-page query fails, no file has been
\* written or deleted: _posts/ is as it was when the run started, and it
\* stays so.
C7_ListingFailureNoEffects ==
  fatal = "listing" => (fs = fs0 /\ ops = <<>>)

\* A later request failed after the first cursor page was accumulated, with
\* a post in _posts/ that the accumulated pages do not list.
C7_Witness ==
  /\ fatal = "listing"
  /\ pc = "exit"
  /\ pages # <<>>
  /\ \E f \in Files :
       /\ fs[f].kind = "post"
       /\ \A k \in 1..Len(pages) : pages[k].id # fs[f].id

\* C8: however the API cuts a listing into cursor pages, fetchPublishedPages
\* and fetchAllBlocks return the items of all of them concatenated in order:
\* the listing itself, as a single cursor page would have returned it.
C8_PaginationComplete ==
  /\ pc \in {"page", "stale"} => publishedPages = remote
  /\ dpc \in {"convert", "done"} => blocks = children

\* fetchAllBlocks returned a listing that came in several cursor pages.
C8_Witness ==
  /\ dpc = "convert"
  /\ Len(brequests) >= 2
  /\ Len(blocks) >= 2
  /\ blocks = children

\* Finished pages whose rename delete threw.
RenameDeleteFailed(k) ==
  /\ Finished(k)
  /\ \E n \in RenameUnlinks(publishedPages[k].id) : ~ops[n].ok

\* C9 as claimed, third part: after a failed rename delete the new file is
\* still written and counted (leaving aside pages whose target cannot be read
\* or written).
C9_WrittenAfterFailedDelete ==
  \A k \in PubIndex :
    LET p == publishedPages[k] IN
    (/\ RenameDeleteFailed(k)
     /\ fs[TargetOf(p)].kind # "unreadable"
     /\ \A n \in Writes(p.id) : ops[n].ok)
      => /\ \E n \in Writes(p.id) : ops[n].ok
         /\ outcome[p.id] \in {"created", "updated"}

\* C9 amended: a failed delete of a renamed-away or stale file never counts as
\* an error and never changes the exit status (errors is the number of failing
\* pages, and a page whose rename delete failed fails only if reading or
\* writing its target throws); after a failed rename delete the page still
\* goes through the compare-and-write and is counted: updated with its file
\* written, or unchanged when the target already held the content; after a
\* failed stale delete the other stale entries are still visited.
C9_BestEffortDeletes ==
  /\ stats.errors = Cardinality(Failing)
  /\ PassDone => exitCode = (IF Failing # {} THEN 1 ELSE 0)
  /\ \A k \in PubIndex :
       RenameDeleteFailed(k) =>
         LET p == publishedPages[k]
             t == p.id
         IN
         /\ outcome[t] \in {"updated", "unchanged", "errors"}
         /\ outcome[t] = "updated" =>
              \E n \in Writes(t) : ops[n].ok /\ ops[n].content = Compose(p)
         /\ outcome[t] = "unchanged" => Writes(t) = {}
         /\ outcome[t] = "errors" =>
              \/ fs[TargetOf(p)].kind = "unreadable"
              \/ \E n \in Writes(t) : ~ops[n].ok
  /\ PassDone => \A t \in StaleTokens : Cardinality(StaleUnlinks(t)) = 1

\* A finished pass in which a rename delete and a stale delete failed, the
\* renamed page was written, and nothing was counted as an error.
C9_Witness ==
  /\ PassDone
  /\ exitCode = 0
  /\ \E k \in PubIndex :
       /\ RenameDeleteFailed(k)
       /\ outcome[publishedPages[k].id] = "updated"
  /\ \E t \in StaleTokens : \E n \in StaleUnlinks(t) : ~ops[n].ok

\* Blocks that blockToMarkdown does not omit.
Emitted(bs) == {k \in 1..Len(bs) : blockToMarkdown(bs[k]) # Null}

Max(S) == CHOOSE x \in S : \A y \in S : x >= y

\* The nearest non-omitted block before k, or 0.
PrevEmitted(bs, k) ==
  LET E == {j \in Emitted(bs) : j < k} IN IF E = {} THEN 0 ELSE Max(E)

LinePos(k) == CHOOSE n \in 1..Len(lines) : lines[n].blk = k

\* C10: in blocksToMarkdown's lines, every non-omitted block after the first
\* is preceded by a blank line unless it and the nearest non-omitted block
\* before it are both list items, in which case their lines are adjacent.
\* Stated for block lists without blocks of empty text.
C10_ListGrouping ==
  (dpc = "done" /\ \A k \in 1..Len(blocks) : blockToMarkdown(blocks[k]) # <<>>)
    => \A k \in Emitted(blocks) :
         PrevEmitted(blocks, k) # 0 =>
           LET n == LinePos(k)
               bothList == /\ blocks[k].type \in LIST_TYPES
                           /\ blocks[PrevEmitted(blocks, k)].type \in LIST_TYPES
           IN  IF bothList
                 THEN lines[n - 1].blk = PrevEmitted(blocks, k)
                 ELSE lines[n - 1].blk = 0

\* --------------------------------------------------- claims on the pass
\* C17: a page whose file is written is counted created exactly when its
\* token had no file name in the index built at the start of the pass and no
\* file was at the target path before the pass began, and updated otherwise.
C17_CreatedIffNew ==
  \A k \in PubIndex :
    LET p == publishedPages[k]
        t == p.id
    IN  (Finished(k) /\ \E n \in Writes(t) : ops[n].ok) =>
          /\ outcome[t] \in {"created", "updated"}
          /\ outcome[t] = "created" <=>
               (notionIdToFile[t] = NoFile /\ fs0[TargetOf(p)].kind = "absent")

\* One page written and counted created; another, not in the index, written
\* over a file that was at its target path, and counted updated.
C17_Witness ==
  \E a, b \in PubIndex :
    LET p == publishedPages[a]
        q == publishedPages[b]
    IN  /\ Finished(a) /\ Finished(b)
        /\ outcome[p.id] = "created"
        /\ fs0[TargetOf(p)].kind = "absent"
        /\ outcome[q.id] = "updated"
        /\ notionIdToFile[q.id] = NoFile
        /\ fs0[TargetOf(q)].kind = "foreign"
        /\ \E n \in Writes(q.id) : ops[n].ok

\* Page k is the last one counted and nothing has run since.
JustCounted(k) ==
  /\ k = i - 1
  /\ \/ pc = "page"
     \/ pc = "stale" /\ staleTodo = {t \in Tokens : notionIdToFile[t] # NoFile}

\* C19: for a published page processed without error, the target file is
\* written exactly when no file is at the target path or the file there
\* differs from the candidate content; the page is counted unchanged exactly
\* when no write happens, and then the file holds the candidate content.
C19_WriteMinimality ==
  \A k \in PubIndex :
    LET p == publishedPages[k]
        t == p.id
    IN  (Finished(k) /\ outcome[t] # "errors") =>
          /\ Cardinality(Writes(t)) <= 1
          /\ \A n \in Writes(t) :
               /\ ops[n].ok
               /\ ops[n].file = TargetOf(p)
               /\ ops[n].content = Compose(p)
               /\ ops[n].before.kind = "absent" \/ ops[n].before # Compose(p)
          /\ outcome[t] = "unchanged" <=> Writes(t) = {}
          /\ (JustCounted(k) /\ Writes(t) = {}) => fs[TargetOf(p)] = Compose(p)

\* One page left alone because its file held the candidate content, then a
\* page written because its file held other content.
C19_Witness ==
  \E a, b \in PubIndex :
    LET p == publishedPages[a]
        q == publishedPages[b]
    IN  /\ Finished(a) /\ JustCounted(b)
        /\ outcome[p.id] = "unchanged"
        /\ fs0[TargetOf(p)] = Compose(p)
        /\ outcome[q.id] = "updated"
        /\ \E n \in Writes(q.id) :
             ops[n].before.kind = "post" /\ ops[n].before # Compose(q)
        /\ fs[TargetOf(q)] = Compose(q)

\* Page k failed in extractMeta or fetchAllBlocks: it is counted as an error,
\* made no file-system call, and its target could be read.
FailedEarly(k) ==
  LET p == publishedPages[k] IN
  /\ Finished(k)
  /\ outcome[p.id] = "errors"
  /\ RenameUnlinks(p.id) = {}
  /\ Writes(p.id) = {}
  /\ fs0[TargetOf(p)].kind # "unreadable"

\* C20 as claimed: when a page's metadata extraction or block fetch throws,
\* its indexed file is there with the same content after the pass.  Stated
\* for pairwise distinct targets and tokens unique in the initial files.
C20_FailingPageKeepsFile ==
  \A k \in PubIndex :
    LET t == publishedPages[k].id IN
    (PassDone /\ FailedEarly(k) /\ notionIdToFile[t] # NoFile
       /\ DistinctTargets /\ UniqueTokens(fs0)) =>
      fs[notionIdToFile[t]] = fs0[notionIdToFile[t]]

\* C20 amended: a page is marked processed before any step that can fail;
\* when its metadata extraction or block fetch throws, no delete is ever
\* called on its indexed file, by the stale cleanup or otherwise, and the
\* only calls on that file are writes for other published pages whose target
\* it is; without such a write the file is there with the same content.
C20_FailingPageFileKept ==
  /\ \A k \in PubIndex : Finished(k) => publishedPages[k].id \in processedIds
  /\ \A k \in PubIndex :
       LET t == publishedPages[k].id
           f == notionIdToFile[t]
       IN  (FailedEarly(k) /\ f # NoFile) =>
             /\ StaleUnlinks(t) = {}
             /\ \A n \in OpIndex(ops) :
                  ops[n].file = f =>
                    /\ ops[n].op = "write"
                    /\ ops[n].id # t
                    /\ \E j \in PubIndex :
                         /\ publishedPages[j].id = ops[n].id
                         /\ TargetOf(publishedPages[j]) = f
             /\ (\A n \in OpIndex(ops) : ops[n].file # f) => fs[f] = fs0[f]

\* A finished pass in which a page with an indexed file failed before its
\* rename delete, the cleanup deleted a stale file, and the failing page's
\* file is as it was.
C20_Witness ==
  /\ PassDone
  /\ \E t \in StaleTokens : \E n \in StaleUnlinks(t) : ops[n].ok
  /\ \E k \in PubIndex :
       LET t == publishedPages[k].id IN
       /\ FailedEarly(k)
       /\ notionIdToFile[t] # NoFile
       /\ fs0[notionIdToFile[t]].kind = "post"
       /\ fs[notionIdToFile[t]] = fs0[notionIdToFile[t]]

\* ---------------------------------------------------------- text claims
\* C11: the file text composed from buildFrontMatter(meta, T) and a body gives
\* back exactly T when the index scan's pattern is applied to it, whatever
\* the metadata values contain.
C11_TokenRoundTrip ==
  tpc = "scanned" => found = Some(arg.page.id)

\* The text of a title or rich-text property's first item, if it has one.
TextOf(prop) ==
  Coalesce(FirstPlainText(Chain(prop, "title")),
           FirstPlainText(Chain(prop, "rich_text")))

HasText(prop) == TextOf(prop) # None /\ Val(TextOf(prop)) # <<>>

\* C12: the title is the text of the first of Title, title, Name that is
\* present with a non-empty text, "Untitled" if there is none, and never the
\* empty string.
C12_TitleResolution ==
  tpc \in {"build", "scan", "scanned"} =>
    LET props == arg.page.properties IN
    /\ meta.title =
         (IF HasText(props.Title) THEN Val(TextOf(props.Title))
          ELSE IF HasText(props.title) THEN Val(TextOf(props.title))
          ELSE IF HasText(props.Name) THEN Val(TextOf(props.Name))
          ELSE Untitled)
    /\ meta.title # <<>>

\* Lowercase, word characters and hyphens only, no two hyphens in a row, no
\* hyphen at either end.
SlugShape(str) ==
  /\ \A n \in DOMAIN str :
       /\ str[n] \notin Range(Uppers)
       /\ str[n] \in WordChars \cup {"-"}
       /\ str[n] \notin SpaceChars
       /\ n > 1 => ~(str[n - 1] = "-" /\ str[n] = "-")
  /\ str # <<>> => (str[1] # "-" /\ str[Len(str)] # "-")

TxtHelloSlug == <<"h", "e", "l", "l", "o", "-", "w", "o", "r", "l", "d">>

\* C13: a page without a non-empty Slug/slug property gets titleToSlug(title)
\* as its slug; titleToSlug's result is lowercase, made of word characters and
\* hyphens, without white space, doubled hyphens or a hyphen at either end,
\* and titleToSlug leaves it unchanged; "Hello, World!" gives "hello-world".
C13_SlugFallback ==
  /\ tpc = "slugified" =>
       /\ SlugShape(ret)
       /\ titleToSlug(ret) = ret
       /\ arg = HelloWorld => ret = TxtHelloSlug
  /\ tpc \in {"build", "scan", "scanned"} =>
       LET props == arg.page.properties IN
       (~HasText(props.Slug) /\ ~HasText(props.slug)) =>
         /\ meta.slug = titleToSlug(meta.title)
         /\ SlugShape(meta.slug)

\* A page without Slug and slug whose title has a capital, and a title that
\* starts with a hyphen and has white space and punctuation inside.
C13_Witness ==
  \/ /\ tpc = "build"
     /\ arg.page.properties.Slug = None
     /\ arg.page.properties.slug = None
     /\ meta.title = TxtHi
     /\ meta.slug = <<"h", "i">>
  \/ /\ tpc = "slugified"
     /\ arg = <<"-", " ", "!">>
     /\ ret = <<>>

\* The markers a span's annotations and link put around its text, innermost
\* first: <<opening, closing>> pairs.
Layers(item) ==
  LET ann  == IF item.annotations = None THEN NoAnnotations
                                         ELSE Val(item.annotations)
      link == item.href # None /\ Val(item.href) # <<>>
  IN  (IF ann.code THEN <<<< <<BT>>, <<BT>> >>>> ELSE <<>>)
      \o (IF ann.bold /\ ann.italic
            THEN <<<< <<"*", "*", "*">>, <<"*", "*", "*">> >>>>
          ELSE IF ann.bold THEN <<<< <<"*", "*">>, <<"*", "*">> >>>>
          ELSE IF ann.italic THEN <<<< <<"*">>, <<"*">> >>>>
          ELSE <<>>)
      \o (IF ann.strikethrough THEN <<<< <<"~", "~">>, <<"~", "~">> >>>> ELSE <<>>)
      \o (IF link THEN <<<< <<"[">>, <<"]", "(">> \o Val(item.href) \o <<")">> >>>>
                  ELSE <<>>)

\* str inside the layers ls, the first layer innermost.
RECURSIVE Layered(_, _)
Layered(str, ls) ==
  IF ls = <<>> THEN str
  ELSE Layered(ls[1][1] \o str \o ls[1][2], Tail(ls))

\* What a single item formats to, by the claim.
Formatted(item) ==
  IF item.plain_text = None \/ Val(item.plain_text) = <<>> THEN <<>>
  ELSE Layered(Val(item.plain_text), Layers(item))

RECURSIVE Concat(_)
Concat(strs) == IF strs = <<>> THEN <<>> ELSE Head(strs) \o Concat(Tail(strs))

\* C14: a span with non-empty text is wrapped, innermost to outermost, in the
\* code markers, then the combined bold+italic (or bold, or italic) markers,
\* then the strikethrough markers, then the link; bold + italic + link gives
\* [***text***](target); a span with empty text gives the empty string; a
\* span list gives the per-span results concatenated in order.
C14_AnnotationOrder ==
  tpc = "formatted" =>
    /\ ret = Concat([n \in DOMAIN arg |-> Formatted(arg[n])])
    /\ \A n \in DOMAIN arg :
         (/\ arg[n].plain_text = Some(<<"t">>)
          /\ arg[n].href = Some(<<"u">>)
          /\ arg[n].annotations =
               Some([NoAnnotations EXCEPT !.bold = TRUE, !.italic = TRUE]))
           => SpanToMarkdown(arg[n]) =
                <<"[", "*", "*", "*", "t", "*", "*", "*", "]", "(", "u", ")">>

\* A span with every annotation and a link, formatted.
C14_Witness ==
  /\ tpc = "formatted"
  /\ Len(arg) = 1
  /\ arg[1].annotations =
       Some([code |-> TRUE, bold |-> TRUE, italic |-> TRUE, strikethrough |-> TRUE])
  /\ ret = <<"[", "~", "~", "*", "*", "*", BT, "t", BT, "*", "*", "*", "~", "~",
             "]", "(", "u", ")">>

\* The url a media block's markdown points to: the text between the last
\* "](" and the closing ")".
UrlOf(str) ==
  LET p == CHOOSE q \in 1..(Len(str) - 1) :
             /\ str[q] = "]" /\ str[q + 1] = "("
             /\ \A r \in (q + 1)..(Len(str) - 1) : ~(str[r] = "]" /\ str[r + 1] = "(")
  IN  SubSeq(str, p + 2, Len(str) - 1)

WellFormedMedia(block) ==
  /\ block.data.type = "external" => (block.data.external # None /\ block.data.file = None)
  /\ block.data.type = "file" => (block.data.file # None /\ block.data.external = None)

IsLower(str) == \A n \in DOMAIN str : str[n] \notin Range(Uppers)

\* C16: the target file name is date + "-" + slug + ".md" and is entirely
\* lowercase, whether the slug is the page's Slug property or derived from
\* the title.
C16_FilenameLowercase ==
  tpc \in {"scan", "scanned"} =>
    /\ fname = meta.date \o <<"-">> \o meta.slug \o TxtMd
    /\ IsLower(fname)

\* The do-while of a fetcher seen from the API: log is the requests made so
\* far with their responses, looping tells that the loop is going on, returned
\* that the fetcher returned.
Protocol(log, looping, returned) ==
  /\ log # <<>> => log[1].start_cursor = NoCursor
  /\ \A n \in 2..Len(log) :
       /\ log[n - 1].ok
       /\ log[n - 1].has_more
       /\ log[n].start_cursor = log[n - 1].next_cursor
  /\ (looping /\ log # <<>>) => (log[Len(log)].ok /\ log[Len(log)].has_more)
  /\ returned => /\ log # <<>>
                 /\ log[Len(log)].ok
                 /\ ~log[Len(log)].has_more

\* C18: in fetchPublishedPages and fetchAllBlocks the first request carries no
\* cursor, each later request carries the next cursor of the response before
\* it, a later request is made only after a response with has_more, the loop
\* goes on after every response with has_more, and the fetcher returns only
\* after a response without it.
C18_PaginationProtocol ==
  /\ Protocol(requests, pc = "list", pc = "listed")
  /\ Protocol(brequests, dpc = "fetch", dpc \in {"convert", "done"})

\* fetchPublishedPages returned after two requests, the second one carrying
\* the cursor of the first response.
C18_Witness ==
  /\ pc = "listed"
  /\ Len(requests) = 2
  /\ requests[1].has_more
  /\ requests[2].start_cursor = requests[1].next_cursor
  /\ requests[2].start_cursor # NoCursor
  /\ pages = remote

\* The for-of loop has not reached page k.
NotReached(k) == k \in PubIndex /\ (k > i \/ (k = i /\ pc = "page"))

\* C21 as claimed: at every point of a pass, the indexed file of every
\* published page not yet reached holds the content it had when the pass
\* started.  Stated for pairwise distinct targets and tokens unique in the
\* initial files.
C21_LaterFilesUntouched ==
  \A k \in PubIndex :
    LET f == notionIdToFile[publishedPages[k].id] IN
    (NotReached(k) /\ f # NoFile /\ DistinctTargets /\ UniqueTokens(fs0)) =>
      fs[f] = fs0[f]

\* C21 amended: at every point of a pass, the indexed file of a published
\* page not yet reached has never been passed to unlinkSync and still exists;
\* the only calls made on it are writes for earlier pages whose target it is,
\* and without such a write it holds the content it had when the pass started.
C21_LaterFilesNotDeleted ==
  \A k \in PubIndex :
    LET t == publishedPages[k].id
        f == notionIdToFile[t]
        calls == {n \in OpIndex(ops) : ops[n].file = f}
    IN  (NotReached(k) /\ f # NoFile) =>
          /\ fs[f].kind # "absent"
          /\ \A n \in calls :
               /\ ops[n].op = "write"
               /\ \E j \in PubIndex :
                    /\ j <= i /\ j # k
                    /\ publishedPages[j].id = ops[n].id
                    /\ TargetOf(publishedPages[j]) = f
          /\ calls = {} => fs[f] = fs0[f]

\* The first page's file was rewritten and the second page, not yet reached,
\* has its indexed post as it was.
C21_Witness ==
  /\ pc = "page"
  /\ i = 2
  /\ NotReached(2)
  /\ notionIdToFile[publishedPages[2].id] # NoFile
  /\ fs0[notionIdToFile[publishedPages[2].id]].kind = "post"
  /\ fs[notionIdToFile[publishedPages[2].id]] = fs0[notionIdToFile[publishedPages[2].id]]
  /\ outcome[publishedPages[1].id] = "updated"
  /\ \E n \in Writes(publishedPages[1].id) : ops[n].ok


\* The position in the listing of the page with token t (0 when it has none).
IndexOf(t) ==
  IF \E k \in PubIndex : publishedPages[k].id = t
    THEN CHOOSE k \in PubIndex : publishedPages[k].id = t
    ELSE 0

\* The pages whose iteration has started.
Begun ==
  {k \in PubIndex : k < i \/ (k = i /\ pc \in {"blocks", "rename", "write"})}

\* Where the pass stands, and the file-system calls made so far: the loop is
\* at one page of the listing, the pages before it are counted and no other,
\* the calls for the pages come in listing order with a page's rename delete
\* before its write, the cleanup's calls come after all of them and only once
\* the loop is over, and a finished pass has visited every index entry, with
\* exactly one unlinkSync call for each stale one.
C22_Order ==
  /\ pc \in {"page", "blocks", "rename", "write"} => i \in PubIndex
  /\ pc = "stale" \/ PassDone => i = Len(publishedPages) + 1
  /\ processedIds = {publishedPages[k].id : k \in Begun}
  /\ \A k \in PubIndex : outcome[publishedPages[k].id] # "none" <=> k < i
  /\ \A n \in OpIndex(ops) :
       IF ops[n].phase = "stale"
         THEN /\ pc \in {"stale", "exit"}
              /\ ops[n].id \notin processedIds
              /\ ops[n].id \notin staleTodo
         ELSE IndexOf(ops[n].id) \in Begun
  /\ \A n, m \in OpIndex(ops) :
       n < m =>
         /\ ops[n].phase = "stale" => ops[m].phase = "stale"
         /\ (ops[n].phase # "stale" /\ ops[m].phase # "stale") =>
              /\ IndexOf(ops[n].id) <= IndexOf(ops[m].id)
              /\ ops[n].id = ops[m].id =>
                   ops[n].phase = "rename" /\ ops[m].phase = "write"
  /\ \A t \in Tokens : Cardinality(StaleUnlinks(t)) <= 1
  /\ PassDone =>
       /\ staleTodo = {}
       /\ \A t \in Tokens :
            (notionIdToFile[t] # NoFile /\ t \notin processedIds) =>
              Cardinality(StaleUnlinks(t)) = 1

\* One step of the pass: the loop index only moves on by one, and only from
\* the end of a page's iteration; a page's steps follow one another (block
\* fetch, then the rename delete if there is one, then the write); a
\* file-system call is made for the page the loop is at, or by the cleanup.
C22_Step ==
  /\ i' # i => i' = i + 1 /\ pc \in {"page", "blocks", "write"}
  /\ pc' = "blocks" => pc = "page" /\ i' = i
  /\ pc' = "rename" => pc = "blocks" /\ i' = i
  /\ pc' = "write" => pc \in {"blocks", "rename"} /\ i' = i
  /\ (pc' = "page" /\ pc # "page") => pc \in {"listed", "blocks", "write"}
  /\ (pc' = "page" /\ pc # "listed") => i' = i + 1
  /\ (pc' = "stale" /\ pc # "stale") =>
       /\ pc \in {"listed", "page", "blocks", "write"}
       /\ i' = Len(publishedPages') + 1
  /\ ops' # ops =>
       /\ Len(ops') = Len(ops) + 1
       /\ SubSeq(ops', 1, Len(ops)) = ops
       /\ LET call == ops'[Len(ops')] IN
          IF pc = "stale"
            THEN call.phase = "stale" /\ call.op = "unlink"
            ELSE /\ pc \in {"rename", "write"}
                 /\ call.phase = pc
                 /\ call.id = publishedPages[i].id

\* C22: published pages are processed one at a time in listing order, each
\* exactly once, a page's block fetch, rename delete and write done before the
\* next page starts; every stale deletion comes after the last published
\* page; and the pass ends, having visited each stale index entry exactly
\* once.
C22_OrderAndTermination ==
  /\ []C22_Order
  /\ [][C22_Step]_vars
  /\ <>(pc = "exit")

\* A finished pass over two pages: the first was written, then the second was
\* renamed (its old file deleted) and written.
C22_Witness ==
  /\ PassDone
  /\ Len(publishedPages) = 2
  /\ Len(ops) = 3
  /\ ops[1].op = "write" /\ ops[1].id = publishedPages[1].id
  /\ ops[2].phase = "rename" /\ ops[2].id = publishedPages[2].id
  /\ ops[3].op = "write" /\ ops[3].id = publishedPages[2].id

\* The published pages counted in counter c.
CountedIn(c) == {k \in PubIndex : outcome[publishedPages[k].id] = c}

\* C23: while the pass goes through the listing the four counters add up to
\* the number of pages counted so far; in a finished pass each counter is the
\* number of published pages counted in it, created + updated + unchanged +
\* errors is the length of the listing, every published page is in exactly
\* one counter, and a token the cleanup called unlinkSync for is in none.
C23_CounterPartition ==
  /\ pc \in {"page", "blocks", "rename", "write", "stale"} => PageCount = i - 1
  /\ PassDone =>
       /\ PageCount = Len(publishedPages)
       /\ \A c \in {"created", "updated", "unchanged", "errors"} :
            stats[c] = Cardinality(CountedIn(c))
       /\ \A n \in OpIndex(ops) :
            ops[n].phase = "stale" => outcome[ops[n].id] = "none"

\* A finished pass that counted its one published page as unchanged and
\* deleted the file of a stale token.
C23_Witness ==
  /\ PassDone
  /\ Len(publishedPages) = 1
  /\ stats = [created |-> 0, updated |-> 0, unchanged |-> 1, errors |-> 0]
  /\ \E t \in Tokens : \E n \in StaleUnlinks(t) : ops[n].ok

\* C24: if at the start of a pass every identity token is in the header of at
\* most one local file, then at the end of the pass every identity token is
\* still in the header of at most one local file, also when a rename's delete
\* of the old file failed.
C24_TokenUniqueness ==
  (PassDone /\ UniqueTokens(fs0)) => UniqueTokens(fs)

\* The files that were in _posts/ when the index was built and are not in it
\* because they could not be read or had no notion_id line.
Untracked == {f \in Files : fs0[f].kind \in {"unreadable", "foreign"}}

\* The unlinkSync calls of the pass.
Unlinks == {n \in OpIndex(ops) : ops[n].op = "unlink"}

\* C25: a local file that was unreadable or had no matching identity token
\* when the index was built is never deleted by the pass, by a rename delete
\* or by the stale cleanup: unlinkSync is only ever called on the file name
\* the index holds for the token at hand, never on an untracked file, and an
\* untracked file is still there.
C25_UntrackedNeverDeleted ==
  /\ \A n \in Unlinks :
       /\ notionIdToFile[ops[n].id] # NoFile
       /\ ops[n].file = notionIdToFile[ops[n].id]
       /\ ops[n].file \notin Untracked
  /\ \A f \in Untracked : fs[f].kind # "absent"

\* A finished pass that deleted the file of a stale token and left a file
\* without a notion_id line as it was.
C25_Witness ==
  /\ PassDone
  /\ \E n \in Unlinks : ops[n].phase = "stale" /\ ops[n].ok
  /\ \E f \in Untracked : fs0[f].kind = "foreign" /\ fs[f] = fs0[f]
====
